---- MODULE Spec2Model ----
(* A model of gml.py: the Parser (load_gml, parse and its recursive-descent *)
(* rules), the Graph/Node/Edge objects it builds, and the string helpers it *)
(* relies on.  A token is a sequence of one-character strings; the cursor   *)
(* _i is the 0-based Python index, so the token under it is raw[i + 1].     *)
(* Node and Edge objects live in two heaps (nodes, edges); a reference is   *)
(* an index into its heap.  Objects that no longer can be reached (a Node   *)
(* or Edge whose block failed, the objects of a replaced Graph) are dropped.*)
EXTENDS Integers, Sequences, FiniteSets, TLC

VARIABLES raw, i, graph, nodes, edges, pc, blk, obj, name, val_l, err, calls

vars == <<raw, i, graph, nodes, edges, pc, blk, obj, name, val_l, err, calls>>

(* ------------------------------------------------------------------ *)
(* Bounds of the model                                                *)
(* ------------------------------------------------------------------ *)
MaxItems == 2
MaxOdd == 1
MaxParseCalls == 2

(* ------------------------------------------------------------------ *)
(* Characters and tokens                                              *)
(* ------------------------------------------------------------------ *)
Q == "\""

Letters == {"a", "b", "c", "d", "e", "f", "g", "h", "i", "j", "k", "l", "m",
            "n", "o", "p", "q", "r", "s", "t", "u", "v", "w", "x", "y", "z"}

Digits == {"0", "1", "2", "3", "4", "5", "6", "7", "8", "9"}

DigitVal == [c \in Digits |->
               CASE c = "0" -> 0 [] c = "1" -> 1 [] c = "2" -> 2 [] c = "3" -> 3
                 [] c = "4" -> 4 [] c = "5" -> 5 [] c = "6" -> 6 [] c = "7" -> 7
                 [] c = "8" -> 8 [] c = "9" -> 9]

kw_graph == <<"g", "r", "a", "p", "h">>
kw_node == <<"n", "o", "d", "e">>
kw_edge == <<"e", "d", "g", "e">>
LBracket == <<"[">>
RBracket == <<"]">>
a_id == <<"i", "d">>
a_source == <<"s", "o", "u", "r", "c", "e">>
a_target == <<"t", "a", "r", "g", "e", "t">>
a_label == <<"l", "a", "b", "e", "l">>

(* str.isalnum(): non-empty and every character a letter or a digit *)
isalnum(tok) ==
    /\ Len(tok) > 0
    /\ \A k \in 1..Len(tok) : tok[k] \in Letters \cup Digits

startswith_quote(tok) == Len(tok) > 0 /\ tok[1] = Q

endswith_quote(tok) == Len(tok) > 0 /\ tok[Len(tok)] = Q

(* the part of an integer literal after its optional sign *)
Unsigned(tok) ==
    IF Len(tok) > 0 /\ tok[1] \in {"+", "-"} THEN Tail(tok) ELSE tok

(* int(val, 10) does not raise ValueError: an optional sign, then digits *)
(* with single underscores allowed between them                          *)
IsInt(tok) ==
    LET body == Unsigned(tok) IN
    /\ Len(body) > 0
    /\ body[1] \in Digits
    /\ body[Len(body)] \in Digits
    /\ \A k \in 1..Len(body) :
          /\ body[k] \in Digits \cup {"_"}
          /\ (body[k] = "_" /\ k < Len(body)) => body[k + 1] # "_"

RECURSIVE DigitsValue(_, _)
DigitsValue(body, acc) ==
    IF body = <<>> THEN acc
    ELSE IF Head(body) = "_" THEN DigitsValue(Tail(body), acc)
    ELSE DigitsValue(Tail(body), 10 * acc + DigitVal[Head(body)])

(* the value of int(val, 10) on a token for which IsInt holds *)
IntOf(tok) ==
    IF tok[1] = "-" THEN 0 - DigitsValue(Unsigned(tok), 0)
    ELSE DigitsValue(Unsigned(tok), 0)

(* ' '.join(val_l) *)
RECURSIVE Join(_)
Join(l) ==
    IF l = <<>> THEN <<>>
    ELSE IF Len(l) = 1 THEN l[1]
    ELSE l[1] \o <<" ">> \o Join(Tail(l))

RECURSIVE LStrip(_)
LStrip(s) == IF s # <<>> /\ Head(s) = Q THEN LStrip(Tail(s)) ELSE s

RECURSIVE RStrip(_)
RStrip(s) ==
    IF s # <<>> /\ s[Len(s)] = Q THEN RStrip(SubSeq(s, 1, Len(s) - 1)) ELSE s

(* val.strip('"'): every leading and every trailing quote is removed *)
Strip(s) == RStrip(LStrip(s))

(* ------------------------------------------------------------------ *)
(* Attribute values and objects                                       *)
(* ------------------------------------------------------------------ *)
IntVal(n) == [t |-> "int", n |-> n, s |-> <<>>]
StrVal(s) == [t |-> "str", n |-> 0, s |-> s]

(* an object with no GML attribute set *)
EmptyAttrs == [x \in {} |-> 0]

(* SetAttr keeping the value an attribute already has *)
SetAttrKeepFirst(attrs, nm, val) ==
    IF nm \in DOMAIN attrs THEN attrs
    ELSE [n \in DOMAIN attrs \cup {nm} |-> IF n = nm THEN val ELSE attrs[n]]

(* setattr(obj, name, val) *)
SetAttr(attrs, nm, val) ==
    [n \in DOMAIN attrs \cup {nm} |-> IF n = nm THEN val ELSE attrs[n]]

(* Node(): is_anon False, empty edge lists *)
NewNode(attrs, anon) ==
    [is_anon |-> anon, attrs |-> attrs,
     forward_edges |-> <<>>, backward_edges |-> <<>>]

(* self.graph = None, before load_gml *)
NoGraph == [is_none |-> TRUE, graph_nodes |-> EmptyAttrs,
            graph_edges |-> <<>>, attrs |-> EmptyAttrs]

(* Graph() *)
NewGraph == [is_none |-> FALSE, graph_nodes |-> EmptyAttrs,
             graph_edges |-> <<>>, attrs |-> EmptyAttrs]

NoErr == [kind |-> "none", haspos |-> FALSE, pos |-> 0]

(* the positions at which no call of the parser is running *)
Rest == {"idle", "done", "error"}

(* ------------------------------------------------------------------ *)
(* The parser, as functions on a state record                         *)
(* ------------------------------------------------------------------ *)
St == [raw |-> raw, i |-> i, graph |-> graph, nodes |-> nodes,
       edges |-> edges, pc |-> pc, blk |-> blk, obj |-> obj,
       name |-> name, val_l |-> val_l, err |-> err, calls |-> calls]

(* the locals of the rules are dead once parse has returned or raised *)
DropLocals(s) ==
    [s EXCEPT !.blk = "graph", !.obj = EmptyAttrs, !.name = <<>>,
              !.val_l = <<>>]

(* Raise with a message that lacks the '[pos {}]' prefix *)
RaiseNoPos(s, kind) ==
    [DropLocals(s) EXCEPT !.pc = "error",
                          !.err = [kind |-> kind, haspos |-> FALSE, pos |-> 0]]

(* raise GMLParseError('[pos {}] ...'.format(self._i)) out of parse *)
Raise(s, kind) ==
    [DropLocals(s) EXCEPT !.pc = "error",
                          !.err = [kind |-> kind, haspos |-> TRUE, pos |-> s.i]]

(* _cur raises when the cursor is at or past the end *)
AtEnd(s) == s.i >= Len(s.raw)

(* _cur's result when it does not raise *)
Cur(s) == s.raw[s.i + 1]

Inc(s) == [s EXCEPT !.i = @ + 1]

KeywordOf(b) ==
    CASE b = "graph" -> kw_graph [] b = "node" -> kw_node [] b = "edge" -> kw_edge

LoopOf(b) ==
    CASE b = "graph" -> "graph_loop" [] b = "node" -> "node_loop"
      [] b = "edge" -> "edge_loop"

(* load_gml: the tokens of the file, cursor 0, a fresh Graph *)
LoadStep(s, tokens) ==
    [DropLocals(s) EXCEPT !.raw = tokens, !.i = 0, !.graph = NewGraph,
                          !.nodes = <<>>, !.edges = <<>>, !.pc = "idle",
                          !.err = NoErr, !.calls = 0]

(* ParseCallStep starting again at the first token *)
ParseCallRewind(s) ==
    IF Len(s.raw) = 0
    THEN [DropLocals(s) EXCEPT !.pc = "error", !.calls = @ + 1,
              !.err = [kind |-> "not_loaded", haspos |-> FALSE, pos |-> 0]]
    ELSE [DropLocals(s) EXCEPT !.pc = "kw", !.calls = @ + 1, !.err = NoErr,
                               !.i = 0]

(* parse: the not-loaded check, then into _parse_graph *)
ParseCallStep(s) ==
    IF Len(s.raw) = 0
    THEN [DropLocals(s) EXCEPT !.pc = "error", !.calls = @ + 1,
              !.err = [kind |-> "not_loaded", haspos |-> FALSE, pos |-> 0]]
    ELSE [DropLocals(s) EXCEPT !.pc = "kw", !.calls = @ + 1, !.err = NoErr]

(* _parse_open_with_keyword, the keyword *)
OpenKeywordStep(s) ==
    IF AtEnd(s) THEN Raise(s, "eof")
    ELSE IF Cur(s) # KeywordOf(s.blk) THEN Raise(s, "expected_keyword")
    ELSE [Inc(s) EXCEPT !.pc = "open"]

(* _parse_open_with_keyword, the bracket; then the rule makes its object *)
OpenBracketStep(s) ==
    IF AtEnd(s) THEN Raise(s, "eof")
    ELSE IF Cur(s) # LBracket THEN Raise(s, "expected_open")
    ELSE [Inc(s) EXCEPT !.pc = LoopOf(s.blk), !.obj = EmptyAttrs]

(* GraphLoopStep taking the end of the tokens for the closing bracket *)
GraphLoopLenient(s) ==
    IF AtEnd(s) THEN [DropLocals(s) EXCEPT !.pc = "done"]
    ELSE IF Cur(s) = RBracket THEN [DropLocals(Inc(s)) EXCEPT !.pc = "done"]
    ELSE IF Cur(s) = kw_node THEN [s EXCEPT !.pc = "kw", !.blk = "node"]
    ELSE IF Cur(s) = kw_edge THEN [s EXCEPT !.pc = "kw", !.blk = "edge"]
    ELSE [s EXCEPT !.pc = "attr_name", !.blk = "graph"]

(* GraphLoopStep refusing tokens after the closing bracket of the graph *)
GraphLoopStrictEnd(s) ==
    IF AtEnd(s) THEN Raise(s, "eof")
    ELSE IF Cur(s) = RBracket
         THEN IF s.i + 1 < Len(s.raw) THEN Raise(Inc(s), "trailing")
              ELSE [DropLocals(Inc(s)) EXCEPT !.pc = "done"]
    ELSE IF Cur(s) = kw_node THEN [s EXCEPT !.pc = "kw", !.blk = "node"]
    ELSE IF Cur(s) = kw_edge THEN [s EXCEPT !.pc = "kw", !.blk = "edge"]
    ELSE [s EXCEPT !.pc = "attr_name", !.blk = "graph"]

(* one test of _parse_graph's loop, and the return of parse after it *)
GraphLoopStep(s) ==
    IF AtEnd(s) THEN Raise(s, "eof")
    ELSE IF Cur(s) = RBracket THEN [DropLocals(Inc(s)) EXCEPT !.pc = "done"]
    ELSE IF Cur(s) = kw_node THEN [s EXCEPT !.pc = "kw", !.blk = "node"]
    ELSE IF Cur(s) = kw_edge THEN [s EXCEPT !.pc = "kw", !.blk = "edge"]
    ELSE [s EXCEPT !.pc = "attr_name", !.blk = "graph"]

(* back in _parse_graph's loop after a node or an edge rule returned *)
ReturnToGraph(s) ==
    [s EXCEPT !.pc = "graph_loop", !.blk = "graph", !.obj = EmptyAttrs]

(* NodeClose without the test for an id already in graph_nodes *)
NodeCloseNoDupCheck(s) ==
    IF a_id \notin DOMAIN s.obj THEN Raise(s, "node_no_id")
    ELSE IF s.obj[a_id].t # "int" THEN Raise(s, "node_non_int_id")
    ELSE ReturnToGraph(
           [s EXCEPT !.nodes = Append(@, NewNode(s.obj, FALSE)),
                     !.graph.graph_nodes =
                         SetAttr(@, s.obj[a_id].n, Len(s.nodes) + 1)])

(* NodeClose storing the node before the test for a known id *)
NodeCloseInsertFirst(s) ==
    IF a_id \notin DOMAIN s.obj THEN Raise(s, "node_no_id")
    ELSE IF s.obj[a_id].t # "int" THEN Raise(s, "node_non_int_id")
    ELSE LET t == [s EXCEPT !.nodes = Append(@, NewNode(s.obj, FALSE)),
                            !.graph.graph_nodes =
                                SetAttr(@, s.obj[a_id].n, Len(s.nodes) + 1)]
         IN IF s.obj[a_id].n \in DOMAIN s.graph.graph_nodes
            THEN Raise(t, "node_redefinition")
            ELSE ReturnToGraph(t)

(* _parse_node after the closing bracket: the checks and the insertion *)
NodeClose(s) ==
    IF a_id \notin DOMAIN s.obj THEN Raise(s, "node_no_id")
    ELSE IF s.obj[a_id].t # "int" THEN Raise(s, "node_non_int_id")
    ELSE IF s.obj[a_id].n \in DOMAIN s.graph.graph_nodes
         THEN Raise(s, "node_redefinition")
    ELSE ReturnToGraph(
           [s EXCEPT !.nodes = Append(@, NewNode(s.obj, FALSE)),
                     !.graph.graph_nodes =
                         SetAttr(@, s.obj[a_id].n, Len(s.nodes) + 1)])

(* NodeLoopStep running the checks before it consumes the bracket *)
NodeLoopCheckFirst(s) ==
    IF AtEnd(s) THEN Raise(s, "eof")
    ELSE IF Cur(s) # RBracket THEN [s EXCEPT !.pc = "attr_name"]
    ELSE LET t == NodeClose(s) IN IF t.pc = "error" THEN t ELSE Inc(t)

(* one test of _parse_node's loop *)
NodeLoopStep(s) ==
    IF AtEnd(s) THEN Raise(s, "eof")
    ELSE IF Cur(s) # RBracket THEN [s EXCEPT !.pc = "attr_name"]
    ELSE NodeClose(Inc(s))

(* Synthesize without 'node.is_anon = True' *)
SynthesizeNotAnon(s, nid) ==
    IF nid \in DOMAIN s.graph.graph_nodes THEN s
    ELSE [s EXCEPT !.nodes = Append(@, NewNode(SetAttr(EmptyAttrs, a_id,
                                                       IntVal(nid)), FALSE)),
                   !.graph.graph_nodes = SetAttr(@, nid, Len(s.nodes) + 1)]

(* one round of _parse_edge's loop over (source, target) *)
Synthesize(s, nid) ==
    IF nid \in DOMAIN s.graph.graph_nodes THEN s
    ELSE [s EXCEPT !.nodes = Append(@, NewNode(SetAttr(EmptyAttrs, a_id,
                                                       IntVal(nid)), TRUE)),
                   !.graph.graph_nodes = SetAttr(@, nid, Len(s.nodes) + 1)]

(* LinkEdge resolving target_node with the source id *)
LinkEdgeTargetFromSource(s) ==
    LET src == s.obj[a_source].n
        tgt == s.obj[a_target].n
        s2 == Synthesize(Synthesize(s, src), tgt)
        sref == s2.graph.graph_nodes[src]
        tref == s2.graph.graph_nodes[src]
        eref == Len(s.edges) + 1
        n1 == [s2.nodes EXCEPT ![sref].forward_edges = Append(@, eref)]
        n2 == [n1 EXCEPT ![tref].backward_edges = Append(@, eref)]
    IN [s2 EXCEPT !.nodes = n2,
                  !.edges = Append(@, [attrs |-> s.obj, source_node |-> sref,
                                       target_node |-> tref]),
                  !.graph.graph_edges = Append(@, eref)]

(* LinkEdge inserting at the front of forward_edges *)
LinkEdgePrepend(s) ==
    LET src == s.obj[a_source].n
        tgt == s.obj[a_target].n
        s2 == Synthesize(Synthesize(s, src), tgt)
        sref == s2.graph.graph_nodes[src]
        tref == s2.graph.graph_nodes[tgt]
        eref == Len(s.edges) + 1
        n1 == [s2.nodes EXCEPT ![sref].forward_edges = <<eref>> \o @]
        n2 == [n1 EXCEPT ![tref].backward_edges = Append(@, eref)]
    IN [s2 EXCEPT !.nodes = n2,
                  !.edges = Append(@, [attrs |-> s.obj, source_node |-> sref,
                                       target_node |-> tref]),
                  !.graph.graph_edges = Append(@, eref)]

(* LinkEdge testing both ids against graph_nodes before it inserts any *)
LinkEdgeDoubleSynth(s) ==
    LET src == s.obj[a_source].n
        tgt == s.obj[a_target].n
        s1 == Synthesize(s, src)
        s2 == IF tgt \in DOMAIN s.graph.graph_nodes THEN s1
              ELSE [s1 EXCEPT !.nodes = Append(@, NewNode(SetAttr(EmptyAttrs,
                                                 a_id, IntVal(tgt)), TRUE)),
                              !.graph.graph_nodes =
                                  SetAttr(@, tgt, Len(s1.nodes) + 1)]
        sref == s2.graph.graph_nodes[src]
        tref == s2.graph.graph_nodes[tgt]
        eref == Len(s.edges) + 1
        n1 == [s2.nodes EXCEPT ![sref].forward_edges = Append(@, eref)]
        n2 == [n1 EXCEPT ![tref].backward_edges = Append(@, eref)]
    IN [s2 EXCEPT !.nodes = n2,
                  !.edges = Append(@, [attrs |-> s.obj, source_node |-> sref,
                                       target_node |-> tref]),
                  !.graph.graph_edges = Append(@, eref)]

(* _parse_edge from the synthesis loop to the append to graph_edges *)
LinkEdge(s) ==
    LET src == s.obj[a_source].n
        tgt == s.obj[a_target].n
        s2 == Synthesize(Synthesize(s, src), tgt)
        sref == s2.graph.graph_nodes[src]
        tref == s2.graph.graph_nodes[tgt]
        eref == Len(s.edges) + 1
        n1 == [s2.nodes EXCEPT ![sref].forward_edges = Append(@, eref)]
        n2 == [n1 EXCEPT ![tref].backward_edges = Append(@, eref)]
    IN [s2 EXCEPT !.nodes = n2,
                  !.edges = Append(@, [attrs |-> s.obj, source_node |-> sref,
                                       target_node |-> tref]),
                  !.graph.graph_edges = Append(@, eref)]

(* EdgeClose synthesizing the source node before it checks the target *)
EdgeCloseSynthFirst(s) ==
    IF a_source \notin DOMAIN s.obj THEN Raise(s, "edge_no_source")
    ELSE IF a_target \notin DOMAIN s.obj THEN Raise(s, "edge_no_target")
    ELSE IF s.obj[a_source].t # "int" THEN Raise(s, "edge_non_int_source")
    ELSE IF s.obj[a_target].t # "int"
         THEN Raise(Synthesize(s, s.obj[a_source].n), "edge_non_int_target")
    ELSE ReturnToGraph(LinkEdge(s))

(* EdgeClose without the isinstance test of the target *)
EdgeCloseNoTargetType(s) ==
    IF a_source \notin DOMAIN s.obj THEN Raise(s, "edge_no_source")
    ELSE IF a_target \notin DOMAIN s.obj THEN Raise(s, "edge_no_target")
    ELSE IF s.obj[a_source].t # "int" THEN Raise(s, "edge_non_int_source")
    ELSE ReturnToGraph(LinkEdge(s))

(* _parse_edge after the closing bracket: the checks, then the linking *)
EdgeClose(s) ==
    IF a_source \notin DOMAIN s.obj THEN Raise(s, "edge_no_source")
    ELSE IF a_target \notin DOMAIN s.obj THEN Raise(s, "edge_no_target")
    ELSE IF s.obj[a_source].t # "int" THEN Raise(s, "edge_non_int_source")
    ELSE IF s.obj[a_target].t # "int" THEN Raise(s, "edge_non_int_target")
    ELSE ReturnToGraph(LinkEdge(s))

(* one test of _parse_edge's loop *)
EdgeLoopStep(s) ==
    IF AtEnd(s) THEN Raise(s, "eof")
    ELSE IF Cur(s) # RBracket THEN [s EXCEPT !.pc = "attr_name"]
    ELSE EdgeClose(Inc(s))

(* _parse_attribute, the name *)
AttrNameStep(s) ==
    IF AtEnd(s) THEN Raise(s, "eof")
    ELSE IF ~isalnum(Cur(s)) THEN Raise(s, "attr_name")
    ELSE [Inc(s) EXCEPT !.pc = "attr_val", !.name = Cur(s)]

(* setattr on the object of the running rule, and the return to its loop *)
StoreAttr(s, val) ==
    LET t == IF s.blk = "graph"
             THEN [s EXCEPT !.graph.attrs = SetAttr(@, s.name, val)]
             ELSE [s EXCEPT !.obj = SetAttr(@, s.name, val)]
    IN [t EXCEPT !.pc = LoopOf(s.blk), !.name = <<>>, !.val_l = <<>>]

(* _parse_attribute, the value token: an int, or the start of a string *)
AttrValueStep(s) ==
    IF AtEnd(s) THEN Raise(s, "eof")
    ELSE IF IsInt(Cur(s)) THEN StoreAttr(Inc(s), IntVal(IntOf(Cur(s))))
    ELSE IF ~startswith_quote(Cur(s)) THEN Raise(s, "attr_value")
    ELSE [s EXCEPT !.pc = "str_scan", !.val_l = <<>>]

(* the value of a string attribute from the collected tokens *)
StringValue(l) == StrVal(Strip(Join(l)))

(* StrScanStep whose loop body collects the token without self._inc() *)
StrScanNoInc(s) ==
    IF AtEnd(s) THEN Raise(s, "eof")
    ELSE IF ~endswith_quote(Cur(s))
         THEN [s EXCEPT !.val_l = Append(@, Cur(s))]
    ELSE StoreAttr(Inc(s), StringValue(Append(s.val_l, Cur(s))))

(* StrScanStep stepping over the token after the closing one as well *)
StrScanSkip(s) ==
    IF AtEnd(s) THEN Raise(s, "eof")
    ELSE IF ~endswith_quote(Cur(s))
         THEN [Inc(s) EXCEPT !.val_l = Append(@, Cur(s))]
    ELSE StoreAttr(Inc(Inc(s)), StringValue(Append(s.val_l, Cur(s))))

(* StrScanStep ending the string at a closing bracket *)
StrScanStopAtBracket(s) ==
    IF AtEnd(s) THEN Raise(s, "eof")
    ELSE IF Cur(s) = RBracket THEN StoreAttr(s, StringValue(s.val_l))
    ELSE IF ~endswith_quote(Cur(s))
         THEN [Inc(s) EXCEPT !.val_l = Append(@, Cur(s))]
    ELSE StoreAttr(Inc(s), StringValue(Append(s.val_l, Cur(s))))

(* one test of the string-scanning loop of _parse_attribute *)
StrScanStep(s) ==
    IF AtEnd(s) THEN Raise(s, "eof")
    ELSE IF ~endswith_quote(Cur(s))
         THEN [Inc(s) EXCEPT !.val_l = Append(@, Cur(s))]
    ELSE StoreAttr(Inc(s), StringValue(Append(s.val_l, Cur(s))))

(* the step the parser takes at position s.pc *)
StepOf(s) ==
    CASE s.pc = "kw" -> OpenKeywordStep(s)
      [] s.pc = "open" -> OpenBracketStep(s)
      [] s.pc = "graph_loop" -> GraphLoopStep(s)
      [] s.pc = "node_loop" -> NodeLoopStep(s)
      [] s.pc = "edge_loop" -> EdgeLoopStep(s)
      [] s.pc = "attr_name" -> AttrNameStep(s)
      [] s.pc = "attr_val" -> AttrValueStep(s)
      [] s.pc = "str_scan" -> StrScanStep(s)

(* a call of parse run to its return or its error *)
RECURSIVE Run(_)
Run(s) == IF s.pc \in Rest THEN s ELSE Run(StepOf(s))

(* the parser just constructed: Parser.__init__ *)
Constructed ==
    [raw |-> <<>>, i |-> 0, graph |-> NoGraph, nodes |-> <<>>, edges |-> <<>>,
     pc |-> "idle", blk |-> "graph", obj |-> EmptyAttrs, name |-> <<>>,
     val_l |-> <<>>, err |-> NoErr, calls |-> 0]

(* load_gml(tokens) then parse() on a new parser, run to its end *)
ParseOf(tokens) == Run(ParseCallStep(LoadStep(Constructed, tokens)))

(* ------------------------------------------------------------------ *)
(* The files load_gml reads: 'graph [', a few items, and a closing    *)
(* bracket or nothing; and a few files with another beginning          *)
(* ------------------------------------------------------------------ *)
t_1 == <<"1">>
t_2 == <<"2">>
t_3 == <<"3">>
t_5 == <<"5">>
t_01 == <<"0", "1">>
s_1 == <<Q, "1", Q>>
s_2 == <<Q, "2", Q>>
s_a == <<Q, "a", Q>>
s_a_open == <<Q, "a">>
s_b_close == <<"b", Q>>
s_x_open == <<Q, "x">>
s_y_close == <<"y", Q>>
s_qq == <<Q, Q, "a", Q, Q>>
s_q == <<Q>>
t_bad == <<"_", "x">>

CoreItems ==
    { <<kw_node, LBracket, a_id, t_1, RBracket>>,
      <<kw_node, LBracket, a_id, t_2, RBracket>>,
      <<kw_edge, LBracket, a_source, t_1, a_target, t_2, RBracket>>,
      <<kw_edge, LBracket, a_source, t_2, a_target, t_1, RBracket>>,
      <<kw_edge, LBracket, a_source, t_1, a_target, t_1, RBracket>>,
      <<a_label, s_a_open, s_b_close>> }

OddItems ==
    { <<kw_node, LBracket, RBracket>>,
      <<kw_node, LBracket, a_id, s_1, RBracket>>,
      <<kw_node, LBracket, a_id, t_1, a_id, t_2, RBracket>>,
      <<kw_node, LBracket, a_id, t_01, a_label, s_a, RBracket>>,
      <<kw_edge, LBracket, a_source, t_1, RBracket>>,
      <<kw_edge, LBracket, a_target, t_1, RBracket>>,
      <<kw_edge, LBracket, a_source, s_1, a_target, t_2, RBracket>>,
      <<kw_edge, LBracket, a_source, t_1, a_target, s_2, RBracket>>,
      <<kw_edge, LBracket, a_label, t_5, a_source, t_3, a_target, t_1, RBracket>>,
      <<a_label, s_qq>>,
      <<a_label, s_q>>,
      <<a_label, s_x_open, RBracket, kw_node, s_y_close>>,
      <<a_label, t_5>>,
      <<t_bad, t_1>>,
      <<a_label, LBracket>>,
      <<RBracket>>,
      <<RBracket, kw_graph, LBracket>>,
      <<kw_node, LBracket, a_id, t_1>>,
      <<a_label, s_a_open>>,
      <<kw_node>>,
      <<a_label>> }

Items == CoreItems \cup OddItems

OddCount(q) == Cardinality({k \in 1..Len(q) : q[k] \in OddItems})

ItemSeqs ==
    {q \in UNION {[1..n -> Items] : n \in 0..MaxItems} : OddCount(q) <= MaxOdd}

RECURSIVE Flatten(_)
Flatten(q) == IF q = <<>> THEN <<>> ELSE Head(q) \o Flatten(Tail(q))

Trailers == {<<RBracket>>, <<>>}

OtherInputs ==
    { <<>>, <<kw_graph>>, <<kw_graph, kw_graph>>,
      <<kw_node, LBracket, a_id, t_1, RBracket>> }

Inputs ==
    {<<kw_graph, LBracket>> \o Flatten(q) \o t : q \in ItemSeqs, t \in Trailers}
      \cup OtherInputs

(* ------------------------------------------------------------------ *)
(* The state machine                                                  *)
(* ------------------------------------------------------------------ *)
SetState(t) ==
    /\ raw' = t.raw
    /\ i' = t.i
    /\ graph' = t.graph
    /\ nodes' = t.nodes
    /\ edges' = t.edges
    /\ pc' = t.pc
    /\ blk' = t.blk
    /\ obj' = t.obj
    /\ name' = t.name
    /\ val_l' = t.val_l
    /\ err' = t.err
    /\ calls' = t.calls

Init ==
    /\ raw = Constructed.raw
    /\ i = Constructed.i
    /\ graph = Constructed.graph
    /\ nodes = Constructed.nodes
    /\ edges = Constructed.edges
    /\ pc = Constructed.pc
    /\ blk = Constructed.blk
    /\ obj = Constructed.obj
    /\ name = Constructed.name
    /\ val_l = Constructed.val_l
    /\ err = Constructed.err
    /\ calls = Constructed.calls

(* the first load_gml reads any of the files; a later one reads the file *)
(* of this parser again                                                   *)
LoadChoices == IF graph.is_none THEN Inputs ELSE {raw}

Load ==
    /\ pc \in Rest
    /\ \E tokens \in LoadChoices : SetState(LoadStep(St, tokens))

ParseCall ==
    /\ pc \in Rest
    /\ calls < MaxParseCalls
    /\ SetState(ParseCallStep(St))

OpenKeyword == pc = "kw" /\ SetState(OpenKeywordStep(St))

OpenBracket == pc = "open" /\ SetState(OpenBracketStep(St))

GraphLoop == pc = "graph_loop" /\ SetState(GraphLoopStep(St))

NodeLoop == pc = "node_loop" /\ SetState(NodeLoopStep(St))

EdgeLoop == pc = "edge_loop" /\ SetState(EdgeLoopStep(St))

AttrName == pc = "attr_name" /\ SetState(AttrNameStep(St))

AttrValue == pc = "attr_val" /\ SetState(AttrValueStep(St))

StrScan == pc = "str_scan" /\ SetState(StrScanStep(St))

Next ==
    \/ Load
    \/ ParseCall
    \/ OpenKeyword
    \/ OpenBracket
    \/ GraphLoop
    \/ NodeLoop
    \/ EdgeLoop
    \/ AttrName
    \/ AttrValue
    \/ StrScan

(* the steps of a running parse: the interpreter takes them one after  *)
(* the other until parse returns or raises                              *)
ParserStep ==
    \/ OpenKeyword
    \/ OpenBracket
    \/ GraphLoop
    \/ NodeLoop
    \/ EdgeLoop
    \/ AttrName
    \/ AttrValue
    \/ StrScan

Spec == Init /\ [][Next]_vars

(* ------------------------------------------------------------------ *)
(* Properties                                                         *)
(* ------------------------------------------------------------------ *)
Keys == DOMAIN graph.graph_nodes

NodeOf(k) == nodes[graph.graph_nodes[k]]

NodeRefs == {graph.graph_nodes[k] : k \in Keys}

(* the object the running rule sets attributes on *)
TargetAttrs == IF blk = "graph" THEN graph.attrs ELSE obj

(* the parser is at the closing bracket of a node block *)
AtNodeClose == pc = "node_loop" /\ ~AtEnd(St) /\ Cur(St) = RBracket

(* the first parse after a load has returned *)
FirstParseDone == pc = "done" /\ calls = 1

NodeBlock(n) == <<kw_node, LBracket, a_id, n, RBracket>>

EdgeBlock(a, b) == <<kw_edge, LBracket, a_source, a, a_target, b, RBracket>>

GraphOf(items) == <<kw_graph, LBracket>> \o items \o <<RBracket>>

(* C1: in every state, during and after a parse, each Edge of graph_edges *)
(* has source_node and target_node set to Nodes held by graph_nodes, the  *)
(* id of source_node being the edge's source and the id of target_node    *)
(* its target.                                                            *)
EdgesResolved ==
    \A j \in 1..Len(graph.graph_edges) :
        LET e == edges[graph.graph_edges[j]] IN
        /\ e.source_node \in NodeRefs
        /\ e.target_node \in NodeRefs
        /\ a_id \in DOMAIN nodes[e.source_node].attrs
        /\ a_id \in DOMAIN nodes[e.target_node].attrs
        /\ nodes[e.source_node].attrs[a_id] = e.attrs[a_source]
        /\ nodes[e.target_node].attrs[a_id] = e.attrs[a_target]

EdgesResolvedWitness ==
    /\ FirstParseDone
    /\ Len(graph.graph_edges) >= 2
    /\ \E j \in 1..Len(graph.graph_edges) :
          edges[graph.graph_edges[j]].source_node
            # edges[graph.graph_edges[j]].target_node

(* C2: in every state, the forward_edges of each Node of graph_nodes is   *)
(* the subsequence of graph_edges whose source is the node's id, and its  *)
(* backward_edges the subsequence whose target is the node's id.          *)
EdgeListsMatch ==
    \A k \in Keys :
        LET n == NodeOf(k)
            FromN(e) == edges[e].attrs[a_source] = n.attrs[a_id]
            ToN(e) == edges[e].attrs[a_target] = n.attrs[a_id]
        IN /\ n.forward_edges = SelectSeq(graph.graph_edges, FromN)
           /\ n.backward_edges = SelectSeq(graph.graph_edges, ToN)

EdgeListsMatchWitness ==
    /\ FirstParseDone
    /\ \E k \in Keys : /\ Len(NodeOf(k).forward_edges) >= 2
                       /\ Len(NodeOf(k).backward_edges) >= 1
                       /\ NodeOf(k).forward_edges # NodeOf(k).backward_edges

(* C3: a graph block with an edge block that references id n and then the *)
(* node block that declares n parses successfully, with the node ids and  *)
(* the edges of the input that has the node block first.                  *)
OrderDoesNotMatter ==
    \A n \in {t_1, t_2}, a \in {t_1, t_2}, b \in {t_1, t_2} :
        ( /\ n \in {a, b}
          /\ pc \in {"done", "error"}
          /\ calls = 1
          /\ raw = GraphOf(EdgeBlock(a, b) \o NodeBlock(n)) )
        => LET r == ParseOf(GraphOf(NodeBlock(n) \o EdgeBlock(a, b))) IN
           /\ pc = "done"
           /\ Keys = DOMAIN r.graph.graph_nodes
           /\ Len(graph.graph_edges) = Len(r.graph.graph_edges)
           /\ \A j \in 1..Len(graph.graph_edges) :
                 edges[graph.graph_edges[j]].attrs
                   = r.edges[r.graph.graph_edges[j]].attrs

(* C4, as claimed: after a failed parse the graph of the parser holds no  *)
(* node, no edge and no graph-level attribute.                            *)
NoPartialGraph ==
    (pc = "error" /\ calls = 1) =>
        /\ Keys = {}
        /\ graph.graph_edges = <<>>
        /\ DOMAIN graph.attrs = {}

(* C4, amended: the step that raises changes nothing in the graph of the  *)
(* parser, which keeps every node, edge and graph-level attribute stored  *)
(* before the error.                                                      *)
FailureKeepsGraph ==
    [][pc' = "error" => (graph' = graph /\ nodes' = nodes /\ edges' = edges)]_vars

FailureKeepsGraphWitness ==
    /\ pc = "error"
    /\ calls = 1
    /\ Keys # {}
    /\ graph.graph_edges # <<>>
    /\ DOMAIN graph.attrs # {}

(* C5: a node block closing with an id that is a key of graph_nodes fails *)
(* with the redefinition error; in every state each key of graph_nodes    *)
(* holds a Node of its own whose id is the key, and no Node has been      *)
(* displaced from the mapping.                                            *)
UniqueKeys ==
    /\ \A k \in Keys : /\ a_id \in DOMAIN NodeOf(k).attrs
                       /\ NodeOf(k).attrs[a_id] = IntVal(k)
    /\ \A k1 \in Keys, k2 \in Keys :
          graph.graph_nodes[k1] = graph.graph_nodes[k2] => k1 = k2
    /\ \A r \in 1..Len(nodes) : r \in NodeRefs

DuplicateRejected ==
    ( /\ AtNodeClose
      /\ a_id \in DOMAIN obj
      /\ obj[a_id].t = "int"
      /\ obj[a_id].n \in Keys )
    => /\ pc' = "error"
       /\ err'.kind = "node_redefinition"
       /\ graph' = graph

UniqueNodeIds == []UniqueKeys /\ [][DuplicateRejected]_vars

UniqueNodeIdsWitness ==
    /\ pc = "error"
    /\ err.kind = "node_redefinition"
    /\ Cardinality(Keys) >= 2

(* C6: a Node is anonymous exactly when an edge block created it, for an *)
(* id that was no key of graph_nodes; an anonymous Node carries no       *)
(* attribute but id, a Node inserted by a node block is not anonymous,   *)
(* and neither changes afterwards.                                       *)
AnonymousBare ==
    \A r \in 1..Len(nodes) : nodes[r].is_anon => DOMAIN nodes[r].attrs = {a_id}

NodeCreation ==
    \A r \in 1..Len(nodes') :
        IF r <= Len(nodes)
        THEN /\ nodes'[r].is_anon = nodes[r].is_anon
             /\ nodes'[r].attrs = nodes[r].attrs
        ELSE /\ pc \in {"node_loop", "edge_loop"}
             /\ nodes'[r].is_anon <=> pc = "edge_loop"
             /\ nodes'[r].attrs[a_id].n \notin Keys

AnonymousIffSynthesized == []AnonymousBare /\ [][NodeCreation]_vars

AnonymousIffSynthesizedWitness ==
    /\ FirstParseDone
    /\ \E k \in Keys : NodeOf(k).is_anon
    /\ \E k \in Keys : /\ ~NodeOf(k).is_anon
                       /\ Cardinality(DOMAIN NodeOf(k).attrs) >= 2
                       /\ NodeOf(k).backward_edges # <<>>

(* C7, as claimed: a node block closing without an id fails with the     *)
(* missing-id error at the index of its closing bracket.                 *)
MissingIdAtClosingBracket ==
    [][(AtNodeClose /\ a_id \notin DOMAIN obj)
         => (pc' = "error" /\ err'.kind = "node_no_id" /\ err'.pos = i)]_vars

(* C7, amended: a node block closing without an id fails with the        *)
(* missing-id error at the index just after its closing bracket.         *)
MissingIdAfterClosingBracket ==
    [][(AtNodeClose /\ a_id \notin DOMAIN obj)
         => /\ pc' = "error"
            /\ err'.kind = "node_no_id"
            /\ err'.haspos
            /\ err'.pos = i + 1]_vars

MissingIdWitness ==
    /\ pc = "error"
    /\ err.kind = "node_no_id"
    /\ raw = GraphOf(<<kw_node, LBracket, RBracket>>)
    /\ err.pos = 5

(* C8, as claimed: every error of parse carries the cursor position at   *)
(* the failure, the error on an empty token sequence included.           *)
ErrorsCarryPosition == pc = "error" => (err.haspos /\ err.pos = i)

(* C8, amended: every error of parse on a non-empty token sequence       *)
(* carries the cursor position at the failure; on an empty one parse     *)
(* fails with the not-loaded error, which carries no position.           *)
ErrorsCarryPositionWhenLoaded ==
    pc = "error" =>
        IF Len(raw) = 0
        THEN err.kind = "not_loaded" /\ ~err.haspos
        ELSE err.haspos /\ err.pos = i

ErrorsCarryPositionWitness ==
    /\ pc = "error"
    /\ calls = 1
    /\ err.kind = "attr_value"
    /\ err.haspos
    /\ err.pos > 2
    /\ err.pos < Len(raw)

StripOne(s) ==
    LET a == IF s # <<>> /\ Head(s) = Q THEN Tail(s) ELSE s
    IN IF a # <<>> /\ a[Len(a)] = Q THEN SubSeq(a, 1, Len(a) - 1) ELSE a

(* C9: the value stored for a string attribute is the collected tokens   *)
(* joined with single spaces, less one leading and one trailing quote.   *)
StripsExactlyOneQuote ==
    [][(pc = "str_scan" /\ pc' \notin {"str_scan", "error"})
         => /\ name \in DOMAIN TargetAttrs'
            /\ TargetAttrs'[name]
                 = StrVal(StripOne(Join(Append(val_l, Cur(St)))))]_vars

(* C10: when the first parse succeeds with the closing bracket of the    *)
(* graph block as the last token, parse on every non-empty proper prefix *)
(* of the tokens fails with the end-of-input error of _cur at position   *)
(* the length of the prefix.                                             *)
TruncationFailsAtEnd ==
    (FirstParseDone /\ i = Len(raw)) =>
        \A k \in 1..(Len(raw) - 1) :
            LET r == ParseOf(SubSeq(raw, 1, k)) IN
            /\ r.pc = "error"
            /\ r.err.kind = "eof"
            /\ r.err.haspos
            /\ r.err.pos = k

TruncationWitness ==
    /\ FirstParseDone
    /\ i = Len(raw)
    /\ Keys # {}
    /\ graph.graph_edges # <<>>
    /\ a_label \in DOMAIN graph.attrs
    /\ graph.attrs[a_label] = StrVal(<<"a", " ", "b">>)

(* the parser is at the closing bracket of an edge block *)
AtEdgeClose == pc = "edge_loop" /\ ~AtEnd(St) /\ Cur(St) = RBracket

(* the step stores an attribute on the object of the running rule *)
StoresAttr == pc \in {"attr_val", "str_scan"} /\ pc' = LoopOf(blk)

(* the value _parse_attribute builds from the tokens it has read *)
ParsedValue ==
    IF pc = "attr_val" THEN IntVal(IntOf(Cur(St)))
    ELSE StrVal(Strip(Join(Append(val_l, Cur(St)))))

(* C11: an attribute whose name the object already has is stored without *)
(* an error and replaces the earlier value, the other attributes staying  *)
(* as they are; _parse_node inserts under the last id, so after           *)
(* 'node [ id 1 id 2 ]' a block 'node [ id 1 ]' is accepted.              *)
LastValueStored ==
    /\ (pc = "attr_val" /\ ~AtEnd(St) /\ IsInt(Cur(St))) => StoresAttr
    /\ (pc = "str_scan" /\ ~AtEnd(St) /\ endswith_quote(Cur(St))) => StoresAttr
    /\ StoresAttr =>
          /\ blk' = blk
          /\ DOMAIN TargetAttrs' = DOMAIN TargetAttrs \cup {name}
          /\ TargetAttrs'[name] = ParsedValue
          /\ \A n \in DOMAIN TargetAttrs \ {name} :
                TargetAttrs'[n] = TargetAttrs[n]

InsertedUnderLastId ==
    (AtNodeClose /\ pc' # "error") =>
        /\ DOMAIN graph'.graph_nodes = Keys \cup {obj[a_id].n}
        /\ nodes'[graph'.graph_nodes[obj[a_id].n]].attrs = obj

RedeclaredIdExample ==
    ( /\ calls = 1
      /\ pc \in {"done", "error"}
      /\ raw = GraphOf(<<kw_node, LBracket, a_id, t_1, a_id, t_2, RBracket>>
                         \o NodeBlock(t_1)) )
    => (pc = "done" /\ Keys = {1, 2})

LastWriteWins ==
    /\ []RedeclaredIdExample
    /\ [][LastValueStored /\ InsertedUnderLastId]_vars

LastWriteWinsWitness ==
    /\ FirstParseDone
    /\ raw = GraphOf(<<kw_node, LBracket, a_id, t_1, a_id, t_2, RBracket>>
                       \o NodeBlock(t_1))
    /\ Keys = {1, 2}

(* C12: an edge block closing with source = target = n is accepted; the  *)
(* new Edge is appended once to the forward_edges and once to the        *)
(* backward_edges of the Node of n, and one anonymous Node is created    *)
(* when n was no key of graph_nodes, none when it was.                   *)
SelfLoopLinked ==
    ( /\ AtEdgeClose
      /\ a_source \in DOMAIN obj
      /\ a_target \in DOMAIN obj
      /\ obj[a_source].t = "int"
      /\ obj[a_target] = obj[a_source] )
    => LET n == obj[a_source].n
           e == Len(edges) + 1
           r == graph'.graph_nodes[n]
       IN /\ pc' = "graph_loop"
          /\ graph'.graph_edges = Append(graph.graph_edges, e)
          /\ DOMAIN graph'.graph_nodes = Keys \cup {n}
          /\ edges'[e].source_node = r
          /\ edges'[e].target_node = r
          /\ IF n \in Keys
             THEN /\ Len(nodes') = Len(nodes)
                  /\ r = graph.graph_nodes[n]
                  /\ nodes'[r].forward_edges = Append(nodes[r].forward_edges, e)
                  /\ nodes'[r].backward_edges = Append(nodes[r].backward_edges, e)
             ELSE /\ Len(nodes') = Len(nodes) + 1
                  /\ r = Len(nodes) + 1
                  /\ nodes'[r].is_anon
                  /\ nodes'[r].forward_edges = <<e>>
                  /\ nodes'[r].backward_edges = <<e>>

SelfLoopAccepted == [][SelfLoopLinked]_vars

SelfLoopWitness ==
    /\ FirstParseDone
    /\ Len(nodes) = 1
    /\ nodes[1].is_anon
    /\ nodes[1].forward_edges = <<1>>
    /\ nodes[1].backward_edges = <<1>>
    /\ edges[1].attrs[a_source] = edges[1].attrs[a_target]

(* C13: the cursor stays between 0 and the number of tokens; a step of  *)
(* a parse leaves it or adds one to it, and adds one only when the token *)
(* under it exists.  Only a load brings it back.                         *)
CursorInRange == i >= 0 /\ i <= Len(raw)

CursorStep ==
    (pc \notin Rest \/ calls' = calls + 1) =>
        \/ i' = i
        \/ i' = i + 1 /\ i < Len(raw) /\ pc \notin Rest

CursorMonotone == []CursorInRange /\ [][CursorStep]_vars

CursorMonotoneWitness ==
    /\ FirstParseDone
    /\ i = Len(raw)
    /\ Len(raw) >= 12
    /\ DOMAIN graph.attrs # {}

(* C14: in the string-scanning loop a token that does not end with a     *)
(* quote is collected whatever it is, with no block opened or closed and *)
(* nothing stored; the first token that ends with a quote ends the value;*)
(* a value token that starts and ends with a quote is a value by itself. *)
StringTokenConsumed ==
    (pc = "str_scan" /\ ~AtEnd(St)) =>
        IF endswith_quote(Cur(St))
        THEN /\ pc' = LoopOf(blk)
             /\ i' = i + 1
             /\ TargetAttrs'[name] = StrVal(Strip(Join(Append(val_l, Cur(St)))))
        ELSE /\ pc' = "str_scan"
             /\ i' = i + 1
             /\ val_l' = Append(val_l, Cur(St))
             /\ blk' = blk
             /\ obj' = obj
             /\ graph' = graph
             /\ nodes' = nodes

StringStartsAtQuote ==
    pc = "str_scan" =>
        /\ i - Len(val_l) >= 0
        /\ startswith_quote(raw[i - Len(val_l) + 1])
        /\ val_l = SubSeq(raw, i - Len(val_l) + 1, i)
        /\ \A k \in 1..Len(val_l) : ~endswith_quote(val_l[k])

StringExamples ==
    (calls = 1 /\ pc \in {"done", "error"}) =>
        /\ raw = GraphOf(<<a_label, s_x_open, RBracket, kw_node, s_y_close>>)
             => /\ pc = "done"
                /\ Keys = {}
                /\ graph.attrs = SetAttr(EmptyAttrs, a_label,
                       StrVal(<<"x", " ", "]", " ", "n", "o", "d", "e", " ", "y">>))
        /\ raw = GraphOf(<<a_label, s_q>>)
             => /\ pc = "done"
                /\ graph.attrs = SetAttr(EmptyAttrs, a_label, StrVal(<<>>))

StringContentOpaque ==
    /\ [](StringStartsAtQuote /\ StringExamples)
    /\ [][StringTokenConsumed]_vars

StringContentWitness ==
    /\ FirstParseDone
    /\ raw = GraphOf(<<a_label, s_x_open, RBracket, kw_node, s_y_close>>)
    /\ a_label \in DOMAIN graph.attrs

(* C15: a value is stored as an integer exactly when its token is a      *)
(* base-10 integer; a node block whose id is a string fails with the     *)
(* non-int-id error, an edge block whose source or target is a string    *)
(* with the non-int source or target error, the graph staying unchanged. *)
TypedByToken ==
    StoresAttr => /\ TargetAttrs'[name].t = "int" <=> IsInt(raw[i' ])
                  /\ TargetAttrs'[name].t = "str" <=> pc = "str_scan"
                  /\ pc = "attr_val" <=> IsInt(raw[i' ])

StringIdRejected ==
    /\ (AtNodeClose /\ a_id \in DOMAIN obj /\ obj[a_id].t = "str")
         => (pc' = "error" /\ err'.kind = "node_non_int_id")
    /\ ( /\ AtEdgeClose
         /\ a_source \in DOMAIN obj
         /\ a_target \in DOMAIN obj
         /\ obj[a_source].t = "str" )
         => (pc' = "error" /\ err'.kind = "edge_non_int_source")
    /\ ( /\ AtEdgeClose
         /\ a_source \in DOMAIN obj
         /\ a_target \in DOMAIN obj
         /\ obj[a_source].t = "int"
         /\ obj[a_target].t = "str" )
         => (pc' = "error" /\ err'.kind = "edge_non_int_target")
    /\ (pc' = "error" /\ err'.kind \in {"node_non_int_id",
              "edge_non_int_source", "edge_non_int_target"})
         => (graph' = graph /\ nodes' = nodes /\ edges' = edges)

QuotedIdsRejected == [][TypedByToken /\ StringIdRejected]_vars

QuotedIdsRejectedWitness ==
    /\ pc = "error"
    /\ calls = 1
    /\ err.kind = "edge_non_int_target"
    /\ Keys # {}

(* C16: from the opening of a node or an edge block until the block is  *)
(* closed successfully, no step changes graph_nodes, graph_edges, the     *)
(* Nodes or the Edges; a block that fails leaves them as they were when   *)
(* it began, and a failing edge block has created no Node.                *)
InBlock == blk \in {"node", "edge"} /\ pc \notin Rest

BlockFrame ==
    (InBlock /\ pc' # "graph_loop") =>
        /\ graph' = graph
        /\ nodes' = nodes
        /\ edges' = edges

FailedBlockLeavesGraph == [][BlockFrame]_vars

FailedBlockWitness ==
    /\ pc = "error"
    /\ calls = 1
    /\ err.kind = "edge_no_target"
    /\ Len(nodes) = 1
    /\ Keys = {1}

(* C17: a call of parse returns or raises after at most 2 * len(_raw) + 1 *)
(* steps. While the call runs a step is always possible, and a step that *)
(* does not end the call lowers a variant that stays a natural number:   *)
(* it moves the cursor by one, or it goes from the test of a loop into   *)
(* the rule whose next step moves the cursor or raises.                  *)
Rank(p) == IF p \in {"kw", "attr_name", "str_scan"} THEN 1 ELSE 0

Variant == 2 * (Len(raw) - i) + 1 - Rank(pc)

VariantBounded ==
    pc \notin Rest => /\ Variant \in 0..(2 * Len(raw) + 1)
                      /\ ENABLED ParserStep

Progress ==
    pc \notin Rest =>
        \/ pc' \in Rest
        \/ /\ raw' = raw
           /\ Variant' < Variant
           /\ i' = i + 1 \/ (i' = i /\ Rank(pc') > Rank(pc))

ParseTerminates == []VariantBounded /\ [][Progress]_vars

ParseTerminatesWitness ==
    /\ FirstParseDone
    /\ raw = GraphOf(NodeBlock(t_2)
                       \o <<a_label, s_x_open, RBracket, kw_node, s_y_close>>)

(* C18: when parse on the first k tokens returns after its closing       *)
(* bracket, parse on these tokens followed by any others returns too,    *)
(* with the same graph and the cursor at k, just past that bracket.      *)
StopsAtClosingBracket ==
    (calls = 1 /\ pc \in {"done", "error"}) =>
        \A k \in 1..Len(raw) :
            LET r == ParseOf(SubSeq(raw, 1, k)) IN
            (r.pc = "done" /\ r.i = k) =>
                /\ pc = "done"
                /\ i = k
                /\ raw[k] = RBracket
                /\ graph = r.graph
                /\ nodes = r.nodes
                /\ edges = r.edges

StopsAtClosingBracketWitness ==
    /\ FirstParseDone
    /\ i < Len(raw)
    /\ Keys # {}

(* C19: a call of parse keeps the cursor and the graph it finds; only a  *)
(* load sets the cursor to 0 and the graph to a fresh one.  The second   *)
(* parse after a load goes on behind the first: when the first has read *)
(* the tokens to the last one, it fails with the end-of-input error and  *)
(* the graph stays the first's;                                          *)
(* when it parses a further graph block, the graph holds the nodes and   *)
(* edges of the first parse and those of that block.                     *)
ParseKeepsSession ==
    (pc \in Rest /\ calls' = calls + 1) =>
        /\ raw' = raw
        /\ i' = i
        /\ graph' = graph
        /\ nodes' = nodes
        /\ edges' = edges

OnlyLoadResets ==
    (i' < i \/ Len(nodes') < Len(nodes) \/ Len(edges') < Len(edges)
       \/ (graph'.attrs # graph.attrs /\ DOMAIN graph'.attrs = {}))
    => /\ pc \in Rest
       /\ pc' = "idle"
       /\ calls' = 0
       /\ i' = 0
       /\ graph' = NewGraph
       /\ nodes' = <<>>
       /\ edges' = <<>>

LoadedFresh ==
    (pc = "idle" /\ ~graph.is_none) =>
        (i = 0 /\ calls = 0 /\ graph = NewGraph /\ nodes = <<>> /\ edges = <<>>)

EdgeAttrs(s) == [j \in 1..Len(s.graph.graph_edges) |->
                    s.edges[s.graph.graph_edges[j]].attrs]

SecondParseContinues ==
    (calls = 2 /\ pc \in {"done", "error"}) =>
        LET r1 == ParseOf(raw)
            r2 == ParseOf(SubSeq(raw, r1.i + 1, Len(raw)))
        IN /\ i >= r1.i
           /\ DOMAIN r1.graph.graph_nodes \subseteq Keys
           /\ SubSeq(EdgeAttrs(St), 1, Len(r1.graph.graph_edges)) = EdgeAttrs(r1)
           /\ (Len(raw) > 0 /\ r1.i = Len(raw)) =>
                 /\ pc = "error"
                 /\ err = [kind |-> "eof", haspos |-> TRUE, pos |-> r1.i]
                 /\ i = r1.i
                 /\ graph = r1.graph
                 /\ nodes = r1.nodes
                 /\ edges = r1.edges
           /\ pc = "done" =>
                 /\ r2.pc = "done"
                 /\ i = r1.i + r2.i
                 /\ Keys = DOMAIN r1.graph.graph_nodes
                             \cup DOMAIN r2.graph.graph_nodes
                 /\ EdgeAttrs(St) = EdgeAttrs(r1) \o EdgeAttrs(r2)

SessionOnlyResetByLoad ==
    /\ [](LoadedFresh /\ SecondParseContinues)
    /\ [][ParseKeepsSession /\ OnlyLoadResets]_vars

SessionWitness ==
    /\ calls = 2
    /\ pc = "done"
    /\ Keys # {}
    /\ i = Len(raw)

====
